---- MODULE Spec2Model ----
(***************************************************************************)
(* Model of pperle/gaze-data-collection: the session loop of main.py and   *)
(* the per-trial procedure show_point_on_screen of utils.py.               *)
(*                                                                         *)
(* One process.  pc is the position of that process in the source; every   *)
(* action is one statement group of the source (named by its lines in the  *)
(* comment above it).  Times are integer milliseconds; circle_scale is a   *)
(* fixed-point number in millionths.  Python's None is the empty tuple and *)
(* a present optional value v is the one-element tuple <<v>>.              *)
(***************************************************************************)
EXTENDS Integers, Sequences, FiniteSets, TLC

\* ------------------------------------------------------------- bounds
\* Number of trials the session loop may start.
MaxTrials == 2
\* Canvas size in pixels (monitor_pixels).
MonW == 2
MonH == 1
\* Distinct second-granularity timestamps datetime.now() may yield.
MaxStamp == 1
\* Longest time (ms) next(source) may block for a fresh frame.
MaxFrameMs == 42
\* Largest canvas width and height create_image is applied to on its own.
MaxCanvas == 4

\* --------------------------------------------------- program constants
\* utils.py:141  circle_scale = 1.   (1.0 in millionths)
ScaleOne == 1000000
\* utils.py:112  random.uniform(0.1, 0.5), in millionths
ThresholdLo == 100000
ThresholdHi == 500000
\* utils.py:153  for _ in range(10)
AnimPolls == 10
\* utils.py:154 / main.py:40  ord('q')
KeyQ == 113
\* utils.py:154  & 0xFF keeps the low 8 bits
ByteMod == 256
\* utils.py:162  < 0.5 (seconds), in ms
WindowMs == 500
\* utils.py:163  cv2.waitKey(42)
WinPollMs == 42
\* cv2.waitKey's return value when the wait times out without a key
NoKey == -1

None == <<>>
Some(v) == <<v>>

\* utils.py:51-55  class TargetOrientation(Enum)
TargetOrientation == [UP |-> 82, DOWN |-> 84, LEFT |-> 81, RIGHT |-> 83]
Orientations == DOMAIN TargetOrientation

\* Raw values a timed key wait may return: timeout, the four arrow codes, 'q',
\* the GTK up-arrow code 0xFF52 and 'q' with the 0x100000 modifier flag set.
KeyCodes == {NoKey, 81, 82, 83, 84, KeyQ, 65362, 1048689}

\* main.py:20-24  monitor geometry of the session
MonitorPixels == <<MonW, MonH>>
MonitorMm == <<300 * MonW, 300 * MonH>>

\* Mutant of Thresholds: random.uniform(0.0, 0.5).
Thresholds_FromZero == {0, (ThresholdLo + ThresholdHi) \div 2, ThresholdHi}

\* utils.py:112  thresholds random.uniform(0.1, 0.5) is sampled at
Thresholds == {ThresholdLo, (ThresholdLo + ThresholdHi) \div 2, ThresholdHi}

\* utils.py:128  int(random.uniform(0, 1) * w), int(random.uniform(0, 1) * h):
\* random.uniform(0, 1) is 0 + 1 * random() with random() in [0, 1)
Positions == {<<x, y>> : x \in 0..(MonW - 1), y \in 0..(MonH - 1)}

\* utils.py:159  datetime.now().strftime(...): a second-granularity stamp
Stamps == 1..MaxStamp

VARIABLES
    pc,                \* position of the process in the source
    trial,             \* number of calls of show_point_on_screen so far
    windowOpen,        \* the cv2 window exists (main.py:26 .. destroyAllWindows)
    collected_data,    \* main.py:29  the five columns
    csv,               \* content of data.csv: None, or Some(table)
    ret,               \* value returned by the last call (utils.py:172), None before
    circle_scale,      \* utils.py:141
    center,            \* utils.py:142
    end_animation_loop,\* utils.py:143
    orientation,       \* utils.py:144
    file_name,         \* utils.py:146
    time_till_capture, \* utils.py:147
    poll_i,            \* utils.py:153  loop index of the ten animation polls
    elapsed,           \* time.time() - start_time_color_change, in ms
    wait,              \* the most recent timed key wait: where, and what it returned
    cam,               \* per trial: calls of clear_frame_buffer, next(source), imwrite
    recent,            \* the last three I/O operations of the trial
    phase,             \* the trial's state in the terms of the specification
    matched,           \* per trial: capture-window polls that returned the bound key
    history,           \* outcome of every returned trial, in order
    monitor_mm,        \* main.py:14  monitor_mm, None when not known
    monitor_pixels,    \* main.py:14  monitor_pixels, None when not known
    detected,          \* what get_monitor_dimensions returned, if it was called
    frames,            \* per trial: animation frames shown, by glyph colour
    frame,             \* the frame last handed to cv2.imshow
    wrong_key          \* per trial: a capture-window poll returned a key that is not bound

vars == <<pc, trial, windowOpen, collected_data, csv, ret, circle_scale, center,
          end_animation_loop, orientation, file_name, time_till_capture, poll_i,
          elapsed, wait, cam, recent, phase, matched, history, monitor_mm,
          monitor_pixels, detected, frames, frame, wrong_key>>

geo_vars == <<monitor_mm, monitor_pixels, detected>>
main_vars == <<collected_data, csv>>
local_vars == <<circle_scale, center, end_animation_loop, orientation, file_name,
                time_till_capture, poll_i, elapsed>>

\* ------------------------------------------------------------ helpers
\* utils.py:154  `& 0xFF` on a Python int (two's complement: -1 & 0xFF = 255)
Mask(k) == k % ByteMod

\* utils.py:154, main.py:40   cv2.waitKey(..) & 0xFF == ord('q')
IsQuit(k) == Mask(k) = KeyQ

\* Mutant of KeyMatches: any arrow key is taken as the confirmation.
KeyMatches_AnyArrow(k, o) == \E q \in Orientations : Mask(k) = TargetOrientation[q]

\* utils.py:163   cv2.waitKey(42) & 0xFF == orientation.value
KeyMatches(k, o) == Mask(k) = TargetOrientation[o]

\* utils.py:162   time.time() - start_time_color_change < 0.5
WindowIsOpen(e) == e < WindowMs

\* Mutant of EndAnimation: the scale already shrunk for the next frame is tested.
EndAnimation_AfterShrink(scale, t) == (scale * 9) \div 10 < t

\* utils.py:112   end_animation_loop = circle_scale < random.uniform(0.1, 0.5)
EndAnimation(scale, t) == scale < t

\* utils.py:95    circle_scale * 0.9
Shrink(scale) == (scale * 9) \div 10

\* utils.py:113-116  the colour triple handed to cv2.putText
GlyphTriple(end) == IF end THEN <<252, 125, 11>> ELSE <<17, 112, 170>>

\* utils.py:150  cv2.imshow reads the triple of a 3-channel image as <<B, G, R>>:
\* the hue seen on the display is orange when red outweighs blue
DisplayedHue(bgr) == IF bgr[3] > bgr[1] THEN "orange" ELSE "blue"

\* utils.py:113-116  glyph colour of the frame, as displayed
GlyphColour(end) == DisplayedHue(GlyphTriple(end))

\* str(None) is 'None'
Str(x) == IF x = None THEN <<"None">> ELSE x

\* utils.py:172   f'{file_name}.jpg'
FStr(fn) == Str(fn) \o <<".jpg">>

\* utils.py:69-72, 82  shape <<rows, columns>> of the array that is drawn on
Canvas(mp, o) ==
    IF o \in {"LEFT", "RIGHT"} THEN <<mp[2], mp[1]>> ELSE <<mp[1], mp[2]>>

\* Mutant of DrawCenter: the centre is not mirrored for LEFT and UP.
DrawCenter_NoMirror(mp, c, o) ==
    IF o \in {"LEFT", "RIGHT"} THEN c ELSE <<c[2], c[1]>>

\* utils.py:74-75, 83-86  the centre <<column, row>> write_text_on_image gets
DrawCenter(mp, c, o) ==
    CASE o = "RIGHT" -> c
      [] o = "LEFT"  -> <<mp[1] - c[1], c[2]>>
      [] o = "DOWN"  -> <<c[2], c[1]>>
      [] o = "UP"    -> <<mp[2] - c[2], c[1]>>

\* utils.py:80, 91  cv2.flip(img, 1): column c of an array goes to column cols-1-c
Flip(shape, p) == <<shape[2] - 1 - p[1], p[2]>>

\* utils.py:93  img.transpose((1, 0, 2)): rows and columns change places
Transpose(p) == <<p[2], p[1]>>

\* utils.py:71-93  where the disc centre <<column, row>> is in the returned image
DiscAt(mp, c, o) ==
    CASE o = "RIGHT" -> DrawCenter(mp, c, o)
      [] o = "LEFT"  -> Flip(Canvas(mp, o), DrawCenter(mp, c, o))
      [] o = "DOWN"  -> Transpose(DrawCenter(mp, c, o))
      [] o = "UP"    -> Transpose(Flip(Canvas(mp, o), DrawCenter(mp, c, o)))

\* utils.py:58-95  the image create_image returns: its shape <<rows, columns>>,
\* the disc centre, the scale it was drawn with, the glyph colour, and whether
\* the glyph was flipped with the image
Image(mp, c, scale, o, end) ==
    [shape |-> <<mp[2], mp[1]>>,
     disc |-> DiscAt(mp, c, o),
     scale |-> scale,
     colour |-> GlyphColour(end),
     mirrored |-> o \in {"LEFT", "UP"}]

\* utils.py:169  np.zeros((monitor_pixels[1], monitor_pixels[0], 3))
BlankImage(mp) ==
    [shape |-> <<mp[2], mp[1]>>, disc |-> None, scale |-> 0, colour |-> "none",
     mirrored |-> FALSE]

\* Nothing shown yet.
NoImage == [shape |-> None, disc |-> None, scale |-> 0, colour |-> "none",
            mirrored |-> FALSE]

NoFrames == [blue |-> 0, orange |-> 0]

\* One more frame of colour col shown.
Shown(f, col) == [f EXCEPT ![col] = @ + 1]

ZeroCam == [clear |-> 0, pull |-> 0, write |-> 0]
NoWait == [site |-> "none", key |-> NoKey]

\* The last three operations, with op added.
Push(r, op) == IF Len(r) < 3 THEN Append(r, op) ELSE Append(Tail(r), op)

EmptyTable == [file_name |-> <<>>, point_on_screen |-> <<>>, time_till_capture |-> <<>>,
               monitor_mm |-> <<>>, monitor_pixels |-> <<>>]

\* main.py:33-37  the five appends
AppendRow(t, fn, c, ttc) ==
    [file_name |-> Append(t.file_name, fn),
     point_on_screen |-> Append(t.point_on_screen, c),
     time_till_capture |-> Append(t.time_till_capture, ttc),
     monitor_mm |-> Append(t.monitor_mm, MonitorMm),
     monitor_pixels |-> Append(t.monitor_pixels, MonitorPixels)]

\* Mutant of KeepOutcome: only the file name is tested.
KeepOutcome_NameOnly(fn, ttc) == fn # None

\* main.py:32   file_name is not None and time_till_capture is not None
KeepOutcome(fn, ttc) == fn # None /\ ttc # None

\* Values of the locals of show_point_on_screen outside a call.
NoLocals ==
    /\ circle_scale' = ScaleOne
    /\ center' = <<0, 0>>
    /\ end_animation_loop' = FALSE
    /\ orientation' = "RIGHT"
    /\ file_name' = None
    /\ time_till_capture' = None
    /\ poll_i' = 0
    /\ elapsed' = 0

\* ---------------------------------------------------------------- Init
\* main.py:14-29: window created, collected_data empty, about to run a trial.
Init ==
    /\ pc = "call"
    /\ trial = 0
    /\ windowOpen = TRUE
    /\ collected_data = EmptyTable
    /\ csv = None
    /\ ret = None
    /\ circle_scale = ScaleOne
    /\ center = <<0, 0>>
    /\ end_animation_loop = FALSE
    /\ orientation = "RIGHT"
    /\ file_name = None
    /\ time_till_capture = None
    /\ poll_i = 0
    /\ elapsed = 0
    /\ wait = NoWait
    /\ cam = ZeroCam
    /\ recent = <<>>
    /\ phase = "NONE"
    /\ matched = 0
    /\ history = <<>>
    /\ monitor_mm = Some(MonitorMm)
    /\ monitor_pixels = Some(MonitorPixels)
    /\ detected = "not_called"
    /\ frames = NoFrames
    /\ frame = NoImage
    /\ wrong_key = FALSE

\* Mutant of DestroyAllWindows: the window is left open.
DestroyAllWindows_Skipped == UNCHANGED windowOpen

\* cv2.destroyAllWindows()
DestroyAllWindows == windowOpen' = FALSE

\* -------------------------------------------- show_point_on_screen
\* main.py:31 the call; utils.py:141-147 the setup of a trial
Setup ==
    /\ pc = "call"
    /\ trial < MaxTrials
    /\ trial' = trial + 1
    /\ circle_scale' = ScaleOne
    /\ center' \in Positions
    /\ end_animation_loop' = FALSE
    /\ orientation' \in Orientations
    /\ file_name' = None
    /\ time_till_capture' = None
    /\ ret' = None
    /\ cam' = ZeroCam
    /\ recent' = <<>>
    /\ phase' = "ANIMATING"
    /\ matched' = 0
    /\ frames' = NoFrames
    /\ wrong_key' = FALSE
    /\ pc' = "render"
    /\ UNCHANGED <<windowOpen, main_vars, poll_i, elapsed, wait, history,
                   geo_vars, frame>>

\* Mutant of Render: the centre mirrored inside create_image replaces the
\* caller's centre.
Render_CenterLeaks ==
    /\ pc = "render"
    /\ ~end_animation_loop
    /\ \E t \in Thresholds :
         /\ end_animation_loop' = EndAnimation(circle_scale, t)
         /\ recent' = Push(recent, GlyphColour(EndAnimation(circle_scale, t)))
         /\ frame' = Image(monitor_pixels[1], center, circle_scale, orientation,
                           EndAnimation(circle_scale, t))
         /\ frames' = Shown(frames, GlyphColour(EndAnimation(circle_scale, t)))
    /\ center' = DrawCenter(monitor_pixels[1], center, orientation)
    /\ circle_scale' = Shrink(circle_scale)
    /\ poll_i' = 0
    /\ pc' = "anim_poll"
    /\ UNCHANGED <<trial, windowOpen, main_vars, ret, orientation, file_name,
                   time_till_capture, elapsed, wait, cam, phase, history,
                   matched, geo_vars, wrong_key>>

\* utils.py:149-151  loop test, create_image (58-95, 98-118) and imshow
Render ==
    /\ pc = "render"
    /\ ~end_animation_loop
    /\ \E t \in Thresholds :
         /\ end_animation_loop' = EndAnimation(circle_scale, t)
         /\ recent' = Push(recent, GlyphColour(EndAnimation(circle_scale, t)))
         /\ frame' = Image(monitor_pixels[1], center, circle_scale, orientation,
                           EndAnimation(circle_scale, t))
         /\ frames' = Shown(frames, GlyphColour(EndAnimation(circle_scale, t)))
    /\ circle_scale' = Shrink(circle_scale)
    /\ poll_i' = 0
    /\ pc' = "anim_poll"
    /\ UNCHANGED <<trial, windowOpen, main_vars, ret, center, orientation, file_name,
                   time_till_capture, elapsed, wait, cam, phase, history,
                   matched,
                   geo_vars, wrong_key>>

\* Mutant of AnimPoll: any key press ends the ten polls after a frame.
AnimPoll_KeyEndsWait ==
    /\ pc = "anim_poll"
    /\ \E k \in KeyCodes :
         /\ wait' = [site |-> "anim", key |-> k]
         /\ recent' = Push(recent, "poll")
         /\ IF IsQuit(k)
              THEN /\ DestroyAllWindows
                   /\ pc' = "exited"
                   /\ UNCHANGED poll_i
              ELSE /\ UNCHANGED windowOpen
                   /\ poll_i' = poll_i + 1
                   /\ pc' = IF poll_i + 1 < AnimPolls /\ k = NoKey THEN "anim_poll"
                            ELSE IF end_animation_loop THEN "open_window"
                            ELSE "render"
    /\ UNCHANGED <<trial, main_vars, ret, circle_scale, center, end_animation_loop,
                   orientation, file_name, time_till_capture, elapsed, cam, phase,
                   history, matched, geo_vars, frame, frames, wrong_key>>

\* utils.py:153-156  one of the ten cv2.waitKey(50) polls after a frame
AnimPoll ==
    /\ pc = "anim_poll"
    /\ \E k \in KeyCodes :
         /\ wait' = [site |-> "anim", key |-> k]
         /\ recent' = Push(recent, "poll")
         /\ IF IsQuit(k)
              THEN /\ DestroyAllWindows
                   /\ pc' = "exited"
                   /\ UNCHANGED poll_i
              ELSE /\ UNCHANGED windowOpen
                   /\ poll_i' = poll_i + 1
                   /\ pc' = IF poll_i + 1 < AnimPolls THEN "anim_poll"
                            ELSE IF end_animation_loop THEN "open_window"
                            ELSE "render"
    /\ UNCHANGED <<trial, main_vars, ret, circle_scale, center, end_animation_loop,
                   orientation, file_name, time_till_capture, elapsed, cam, phase,
                   history,
                   matched,
                   geo_vars, frame, frames, wrong_key>>

\* utils.py:158-160  file_name and start_time_color_change
OpenWindow ==
    /\ pc = "open_window"
    /\ end_animation_loop
    /\ \E s \in Stamps : file_name' = Some(s)
    /\ elapsed' = 0
    /\ phase' = "CAPTURE_WINDOW"
    /\ pc' = "win_check"
    /\ UNCHANGED <<trial, windowOpen, main_vars, ret, circle_scale, center,
                   end_animation_loop, orientation, time_till_capture, poll_i, wait,
                   cam, recent, history,
                   matched,
                   geo_vars, frame, frames, wrong_key>>

\* Mutant of WinCheck: the start time is taken again when the half second
\* is over, so the window never expires.
WinCheck_Restarts ==
    /\ pc = "win_check"
    /\ pc' = "win_poll"
    /\ elapsed' = IF WindowIsOpen(elapsed) THEN elapsed ELSE 0
    /\ UNCHANGED <<trial, windowOpen, main_vars, ret, circle_scale, center,
                   end_animation_loop, orientation, file_name, time_till_capture,
                   poll_i, wait, cam, recent, history, phase, matched,
                   geo_vars, frame, frames, wrong_key>>

\* utils.py:162  the loop test of the capture window
WinCheck ==
    /\ pc = "win_check"
    /\ IF WindowIsOpen(elapsed)
         THEN pc' = "win_poll" /\ UNCHANGED phase
         ELSE pc' = "blank" /\ phase' = "EXPIRED"
    /\ UNCHANGED <<trial, windowOpen, main_vars, ret, local_vars, wait, cam, recent,
                   history,
                   matched,
                   geo_vars, frame, frames, wrong_key>>

\* Mutant of WinPoll: a key that is not the orientation's closes the window.
WinPoll_WrongKeyCloses ==
    /\ pc = "win_poll"
    /\ \E k \in KeyCodes :
         /\ wait' = [site |-> "window", key |-> k]
         /\ \E d \in (IF k = NoKey THEN {WinPollMs} ELSE {0, WinPollMs}) :
              elapsed' = elapsed + d
         /\ matched' = matched + (IF k % ByteMod = TargetOrientation[orientation]
                                     THEN 1 ELSE 0)
         /\ IF KeyMatches(k, orientation)
              THEN pc' = "clear" /\ recent' = Push(recent, "match") /\ UNCHANGED phase
              ELSE IF k = NoKey
                THEN pc' = "win_check" /\ recent' = Push(recent, "poll") /\ UNCHANGED phase
                ELSE pc' = "blank" /\ recent' = Push(recent, "poll") /\ phase' = "EXPIRED"
         /\ wrong_key' = (wrong_key \/ (k # NoKey /\ ~KeyMatches(k, orientation)))
    /\ UNCHANGED <<trial, windowOpen, main_vars, ret, circle_scale, center,
                   end_animation_loop, orientation, file_name, time_till_capture,
                   poll_i, cam, history, geo_vars, frame, frames>>

\* utils.py:163  cv2.waitKey(42): returns at once on a key, after 42 ms without
WinPoll ==
    /\ pc = "win_poll"
    /\ \E k \in KeyCodes :
         /\ wait' = [site |-> "window", key |-> k]
         /\ \E d \in (IF k = NoKey THEN {WinPollMs} ELSE {0, WinPollMs}) :
              elapsed' = elapsed + d
         /\ matched' = matched + (IF k % ByteMod = TargetOrientation[orientation]
                                     THEN 1 ELSE 0)
         /\ IF KeyMatches(k, orientation)
              THEN pc' = "clear" /\ recent' = Push(recent, "match")
              ELSE pc' = "win_check" /\ recent' = Push(recent, "poll")
         /\ wrong_key' = (wrong_key \/ (k # NoKey /\ ~KeyMatches(k, orientation)))
    /\ UNCHANGED <<trial, windowOpen, main_vars, ret, circle_scale, center,
                   end_animation_loop, orientation, file_name, time_till_capture,
                   poll_i, cam, phase, history,
                   geo_vars, frame, frames>>

\* Mutant of ClearFrameBuffer: the buffer is not cleared before the pull.
ClearFrameBuffer_Skipped ==
    /\ pc = "clear"
    /\ pc' = "next"
    /\ UNCHANGED <<trial, windowOpen, main_vars, ret, local_vars, wait, cam, recent,
                   phase, matched, history,
                   geo_vars, frame, frames, wrong_key>>

\* utils.py:164  source.clear_frame_buffer()
ClearFrameBuffer ==
    /\ pc = "clear"
    /\ cam' = [cam EXCEPT !.clear = @ + 1]
    /\ recent' = Push(recent, "clear")
    /\ pc' = "next"
    /\ UNCHANGED <<trial, windowOpen, main_vars, ret, local_vars, wait, phase, history,
                   matched,
                   geo_vars, frame, frames, wrong_key>>

\* utils.py:165  next(source): blocks until the camera delivers a frame
NextFrame ==
    /\ pc = "next"
    /\ cam' = [cam EXCEPT !.pull = @ + 1]
    /\ recent' = Push(recent, "pull")
    /\ \E d \in {0, MaxFrameMs} : elapsed' = elapsed + d
    /\ pc' = "imwrite"
    /\ UNCHANGED <<trial, windowOpen, main_vars, ret, circle_scale, center,
                   end_animation_loop, orientation, file_name, time_till_capture,
                   poll_i, wait, phase, history,
                   matched,
                   geo_vars, frame, frames, wrong_key>>

\* utils.py:165  cv2.imwrite(f'{base_path}/{file_name}.jpg', frame)
ImWrite ==
    /\ pc = "imwrite"
    /\ cam' = [cam EXCEPT !.write = @ + 1]
    /\ recent' = Push(recent, "write")
    /\ pc' = "stamp"
    /\ UNCHANGED <<trial, windowOpen, main_vars, ret, local_vars, wait, phase, history,
                   matched,
                   geo_vars, frame, frames, wrong_key>>

\* Mutant of StampCapture: the break is missing, the window loop goes on.
StampCapture_NoBreak ==
    /\ pc = "stamp"
    /\ time_till_capture' = Some(elapsed)
    /\ phase' = "CAPTURED"
    /\ pc' = "win_check"
    /\ UNCHANGED <<trial, windowOpen, main_vars, ret, circle_scale, center,
                   end_animation_loop, orientation, file_name, poll_i, elapsed, wait,
                   cam, recent, matched, history,
                   geo_vars, frame, frames, wrong_key>>

\* utils.py:166-167  time_till_capture and break
StampCapture ==
    /\ pc = "stamp"
    /\ time_till_capture' = Some(elapsed)
    /\ phase' = "CAPTURED"
    /\ pc' = "blank"
    /\ UNCHANGED <<trial, windowOpen, main_vars, ret, circle_scale, center,
                   end_animation_loop, orientation, file_name, poll_i, elapsed, wait,
                   cam, recent, history,
                   matched,
                   geo_vars, frame, frames, wrong_key>>

\* utils.py:169  cv2.imshow of the blank frame
Blank ==
    /\ pc = "blank"
    /\ recent' = Push(recent, "blank")
    /\ frame' = BlankImage(monitor_pixels[1])
    /\ pc' = "settle"
    /\ UNCHANGED <<trial, windowOpen, main_vars, ret, local_vars, wait, cam, phase,
                   history, matched, geo_vars, frames, wrong_key>>

\* utils.py:170  cv2.waitKey(500) with its result discarded
SettleWait ==
    /\ pc = "settle"
    /\ \E k \in KeyCodes : wait' = [site |-> "settle", key |-> k]
    /\ recent' = Push(recent, "poll")
    /\ pc' = "return"
    /\ UNCHANGED <<trial, windowOpen, main_vars, ret, local_vars, cam, phase, history,
                   matched, geo_vars, frame, frames, wrong_key>>

\* What history keeps of a returned trial.
Outcome(ph, r) == IF ph = "CAPTURED" THEN <<ph, r>> ELSE <<ph>>

\* utils.py:172  return f'{file_name}.jpg', center, time_till_capture
Return ==
    /\ pc = "return"
    /\ ret' = <<FStr(file_name), center, time_till_capture>>
    /\ history' = Append(history,
                         Outcome(phase, <<FStr(file_name), center, time_till_capture>>))
    /\ NoLocals
    /\ frames' = NoFrames
    /\ wrong_key' = FALSE
    /\ pc' = "record"
    /\ UNCHANGED <<trial, windowOpen, main_vars, wait, cam, recent, phase,
                   matched,
                   geo_vars, frame>>

\* ------------------------------------------------------------ main
\* Mutant of Record: the row is appended but data.csv is not rewritten.
Record_NoSave ==
    /\ pc = "record"
    /\ IF KeepOutcome(ret[1], ret[3])
         THEN /\ collected_data' = AppendRow(collected_data, ret[1], ret[2], ret[3])
              /\ UNCHANGED csv
         ELSE UNCHANGED main_vars
    /\ pc' = "main_wait"
    /\ UNCHANGED <<trial, windowOpen, ret, local_vars, wait, cam, recent, phase,
                   matched, history,
                   geo_vars, frame, frames, wrong_key>>

\* main.py:31-38  unpack the outcome, append the row, rewrite data.csv
Record ==
    /\ pc = "record"
    /\ IF KeepOutcome(ret[1], ret[3])
         THEN /\ collected_data' = AppendRow(collected_data, ret[1], ret[2], ret[3])
              /\ csv' = Some(AppendRow(collected_data, ret[1], ret[2], ret[3]))
         ELSE UNCHANGED main_vars
    /\ pc' = "main_wait"
    /\ UNCHANGED <<trial, windowOpen, ret, local_vars, wait, cam, recent, phase, history,
                   matched,
                   geo_vars, frame, frames, wrong_key>>

\* main.py:40-42  cv2.waitKey(500), quit or loop
MainWait ==
    /\ pc = "main_wait"
    /\ \E k \in KeyCodes :
         /\ wait' = [site |-> "main", key |-> k]
         /\ IF IsQuit(k)
              THEN DestroyAllWindows /\ pc' = "exited"
              ELSE UNCHANGED windowOpen /\ pc' = "call"
    /\ UNCHANGED <<trial, main_vars, ret, local_vars, cam, recent, phase, history,
                   matched,
                   geo_vars, frame, frames, wrong_key>>

Next ==
    \/ Setup
    \/ Render
    \/ AnimPoll
    \/ OpenWindow
    \/ WinCheck
    \/ WinPoll
    \/ ClearFrameBuffer
    \/ NextFrame
    \/ ImWrite
    \/ StampCapture
    \/ Blank
    \/ SettleWait
    \/ Return
    \/ Record
    \/ MainWait

Spec == Init /\ [][Next]_vars

\* The first trial of a session, to the end of its loop iteration.
FirstTrial == trial = 0 /\ Setup

TrialNext ==
    \/ FirstTrial
    \/ Render
    \/ AnimPoll
    \/ OpenWindow
    \/ WinCheck
    \/ WinPoll
    \/ ClearFrameBuffer
    \/ NextFrame
    \/ ImWrite
    \/ StampCapture
    \/ Blank
    \/ SettleWait
    \/ Return
    \/ Record
    \/ MainWait

TrialSpec == Init /\ [][TrialNext]_vars

\* ------------------------------------------------- a trial without quit
\* No key wait of the step returns the quit key (utils.py:154, main.py:40).
NoQuit == ~IsQuit(wait'.key)

\* time.time() has moved on when cv2.waitKey(42) returns (utils.py:162-163).
TimeAdvances == elapsed' > elapsed

LiveNext ==
    \/ FirstTrial
    \/ Render
    \/ AnimPoll /\ NoQuit
    \/ OpenWindow
    \/ WinCheck
    \/ WinPoll /\ NoQuit /\ TimeAdvances
    \/ ClearFrameBuffer
    \/ NextFrame
    \/ ImWrite
    \/ StampCapture
    \/ Blank
    \/ SettleWait /\ NoQuit
    \/ Return
    \/ Record
    \/ MainWait /\ NoQuit

\* The program is one sequential process: a step that can be taken is taken
\* (every cv2.waitKey returns when its timeout is over).
LiveSpec == Init /\ [][LiveNext]_vars /\ WF_vars(LiveNext)

\* ------------------------------------------------- start of main
\* main.py:14  the arguments of main before any statement has run
StartInit ==
    /\ pc = "main_start"
    /\ trial = 0
    /\ windowOpen = FALSE
    /\ collected_data = EmptyTable
    /\ csv = None
    /\ ret = None
    /\ circle_scale = ScaleOne
    /\ center = <<0, 0>>
    /\ end_animation_loop = FALSE
    /\ orientation = "RIGHT"
    /\ file_name = None
    /\ time_till_capture = None
    /\ poll_i = 0
    /\ elapsed = 0
    /\ wait = NoWait
    /\ cam = ZeroCam
    /\ recent = <<>>
    /\ phase = "NONE"
    /\ matched = 0
    /\ history = <<>>
    /\ monitor_mm \in {None, Some(MonitorMm)}
    /\ monitor_pixels \in {None, Some(MonitorPixels)}
    /\ detected = "not_called"
    /\ frames = NoFrames
    /\ frame = NoImage
    /\ wrong_key = FALSE

\* main.py:20  if monitor_mm is None or monitor_pixels is None
NeedsDetection(mm, px) == mm = None \/ px = None

\* Mutant of DetectionFailed: the result of the detection is not tested.
DetectionFailed_Ignored(mm, px) == FALSE

\* main.py:22  if monitor_mm is None or monitor_pixels is None (after the detection)
DetectionFailed(mm, px) == mm = None \/ px = None

\* utils.py:14-43  get_monitor_dimensions: it returns both pairs, or
\* (None, None) when pgi is not installed (utils.py:42), or it raises: any
\* exception other than ModuleNotFoundError leaves it uncaught, as the
\* AttributeError of utils.py:30 when Gdk has no default display
MonitorDimensions ==
    {[raised |-> FALSE, value |-> <<Some(MonitorMm), Some(MonitorPixels)>>],
     [raised |-> FALSE, value |-> <<None, None>>],
     [raised |-> TRUE, value |-> <<None, None>>]}

\* main.py:20-24  monitor geometry: as given, else detected, else ValueError;
\* an exception of get_monitor_dimensions leaves main at main.py:21
GetMonitor ==
    /\ pc = "main_start"
    /\ IF NeedsDetection(monitor_mm, monitor_pixels)
         THEN \E r \in MonitorDimensions :
                IF r.raised
                  THEN /\ detected' = "raised"
                       /\ pc' = "uncaught"
                       /\ UNCHANGED <<monitor_mm, monitor_pixels>>
                  ELSE /\ monitor_mm' = r.value[1]
                       /\ monitor_pixels' = r.value[2]
                       /\ detected' = IF r.value = <<None, None>> THEN "absent"
                                       ELSE "found"
                       /\ pc' = IF DetectionFailed(r.value[1], r.value[2])
                                  THEN "config_error"
                                  ELSE "create_window"
         ELSE /\ UNCHANGED geo_vars
              /\ pc' = "create_window"
    /\ UNCHANGED <<trial, windowOpen, main_vars, ret, local_vars, wait, cam, recent,
                   phase, matched, history, frames, frame, wrong_key>>

\* main.py:26-29  the full-screen window and the empty collected_data
CreateWindow ==
    /\ pc = "create_window"
    /\ windowOpen' = TRUE
    /\ collected_data' = EmptyTable
    /\ pc' = "call"
    /\ UNCHANGED <<trial, csv, ret, local_vars, wait, cam, recent, phase, matched,
                   history, geo_vars, frames, frame, wrong_key>>

StartNext ==
    \/ GetMonitor
    \/ CreateWindow
    \/ FirstTrial
    \/ Render
    \/ AnimPoll
    \/ OpenWindow
    \/ WinCheck
    \/ WinPoll
    \/ ClearFrameBuffer
    \/ NextFrame
    \/ ImWrite
    \/ StampCapture
    \/ Blank
    \/ SettleWait
    \/ Return
    \/ Record
    \/ MainWait

StartSpec == StartInit /\ [][StartNext]_vars

\* ------------------------------------------- create_image on its own
\* Scales create_image is called with: the first frame's, and one below the
\* smallest threshold.
RenderScales == {ScaleOne, ThresholdLo - 1}

\* The arguments of one call of create_image (utils.py:58): any canvas up to
\* MaxCanvas x MaxCanvas, any centre on it, any orientation.
RenderInit ==
    /\ pc = "create_image"
    /\ trial = 0
    /\ windowOpen = TRUE
    /\ collected_data = EmptyTable
    /\ csv = None
    /\ ret = None
    /\ circle_scale \in RenderScales
    /\ \E w \in 1..MaxCanvas, h \in 1..MaxCanvas :
         /\ monitor_pixels = Some(<<w, h>>)
         /\ monitor_mm = Some(<<300 * w, 300 * h>>)
         /\ center \in {<<x, y>> : x \in 0..(w - 1), y \in 0..(h - 1)}
    /\ end_animation_loop = FALSE
    /\ orientation \in Orientations
    /\ file_name = None
    /\ time_till_capture = None
    /\ poll_i = 0
    /\ elapsed = 0
    /\ wait = NoWait
    /\ cam = ZeroCam
    /\ recent = <<>>
    /\ phase = "ANIMATING"
    /\ matched = 0
    /\ history = <<>>
    /\ detected = "not_called"
    /\ frames = NoFrames
    /\ frame = NoImage
    /\ wrong_key = FALSE

\* utils.py:58-95  one call of create_image and its three results
CreateImage ==
    /\ pc = "create_image"
    /\ \E t \in Thresholds :
         /\ end_animation_loop' = EndAnimation(circle_scale, t)
         /\ frame' = Image(monitor_pixels[1], center, circle_scale, orientation,
                           EndAnimation(circle_scale, t))
    /\ circle_scale' = Shrink(circle_scale)
    /\ pc' = "created"
    /\ UNCHANGED <<trial, windowOpen, main_vars, ret, center, orientation, file_name,
                   time_till_capture, poll_i, elapsed, wait, cam, recent, phase,
                   matched, history, geo_vars, frames, wrong_key>>

RenderNext == CreateImage

RenderSpec == RenderInit /\ [][RenderNext]_vars

\* ------------------------------------------------------------ claims
\* The outcome of the trial that returned last.
LastOutcome == history[Len(history)]

\* The table main builds from the returned trials: a row per CAPTURED one.
RECURSIVE TableOf(_)
TableOf(h) ==
    IF h = <<>> THEN EmptyTable
    ELSE LET t == TableOf(SubSeq(h, 1, Len(h) - 1))
             e == h[Len(h)]
         IN  IF e[1] = "CAPTURED" THEN AppendRow(t, e[2][1], e[2][2], e[2][3]) ELSE t

ColumnsEqual(t) ==
    /\ Len(t.point_on_screen) = Len(t.file_name)
    /\ Len(t.time_till_capture) = Len(t.file_name)
    /\ Len(t.monitor_mm) = Len(t.file_name)
    /\ Len(t.monitor_pixels) = Len(t.file_name)

\* C1: every returned outcome has file_name and time_till_capture both present
\* or both absent; an EXPIRED trial returns both absent, a CAPTURED one both.
C1_BothOrNeither ==
    pc = "record" =>
        /\ (ret[1] = None) <=> (ret[3] = None)
        /\ LastOutcome[1] = "EXPIRED" => (ret[1] = None /\ ret[3] = None)
        /\ LastOutcome[1] = "CAPTURED" => (ret[1] # None /\ ret[3] # None)

\* C2: a quit key returned by a capture-window poll ends the process on the
\* hard-exit path: display released, process ended, no outcome returned.
C2_QuitInWindowExits ==
    (wait.site = "window" /\ wait.key % ByteMod = KeyQ) =>
        (pc = "exited" /\ ~windowOpen /\ ret = None)

\* C3: the orientation is fixed from setup to return, and while no
\* capture-window poll has returned the key code bound to it, clear_frame_buffer
\* was not called, no frame was pulled, no image written, time_till_capture is
\* absent, and the trial can only end EXPIRED.
C3_OnlyBoundKeyCaptures ==
    /\ [](matched = 0 =>
            /\ cam = ZeroCam
            /\ time_till_capture = None
            /\ phase # "CAPTURED"
            /\ (pc \in {"blank", "settle", "return"} => phase = "EXPIRED"))
    /\ [][orientation' # orientation => pc \in {"call", "return"}]_vars

\* C3 witness: the last capture-window poll returned the LEFT key while the
\* orientation is UP, and the trial expired.
C3_Witness ==
    /\ pc = "blank"
    /\ phase = "EXPIRED"
    /\ orientation = "UP"
    /\ wait = [site |-> "window", key |-> 81]
    /\ matched = 0

\* C4: every CAPTURED trial records a time_till_capture of at most 0.5 s.
C4_WithinHalfSecond ==
    time_till_capture # None => time_till_capture[1] <= WindowMs

\* C5: a frame is pulled only directly after a clear_frame_buffer that directly
\* follows the matching key poll, and never more often than the buffer was cleared.
C5_ClearBeforePull ==
    /\ cam.pull <= cam.clear
    /\ (recent # <<>> /\ recent[Len(recent)] = "pull") =>
           recent = <<"match", "clear", "pull">>

C5_Witness ==
    /\ pc = "imwrite"
    /\ recent = <<"match", "clear", "pull">>
    /\ cam = [clear |-> 1, pull |-> 1, write |-> 0]

\* C6: a trial pulls and writes at most one frame: exactly one when it ends
\* CAPTURED, none when it ends EXPIRED; matching keys after the capture add nothing.
C6_AtMostOneFrame ==
    /\ cam.clear <= 1 /\ cam.pull <= 1 /\ cam.write <= 1
    /\ pc \in {"blank", "settle", "return", "record", "main_wait"} =>
          /\ phase \in {"CAPTURED", "EXPIRED"}
          /\ phase = "CAPTURED" => cam = [clear |-> 1, pull |-> 1, write |-> 1]
          /\ phase = "EXPIRED" => cam = ZeroCam

\* C6 witness: after a capture the settle wait returned the bound key again.
C6_Witness ==
    /\ pc = "return"
    /\ phase = "CAPTURED"
    /\ wait.site = "settle"
    /\ wait.key % ByteMod = TargetOrientation[orientation]
    /\ cam = [clear |-> 1, pull |-> 1, write |-> 1]

\* C7: between trials the persisted table holds exactly one row per CAPTURED
\* trial, in trial order, and none for an EXPIRED one; the five columns always
\* have equal length.
C7_OneRowPerCapture ==
    /\ ColumnsEqual(collected_data)
    /\ csv # None => ColumnsEqual(csv[1])
    /\ pc \in {"call", "main_wait"} =>
          /\ collected_data = TableOf(history)
          /\ csv = IF TableOf(history) = EmptyTable THEN None
                   ELSE Some(TableOf(history))

\* C7 witness: an EXPIRED trial followed by a CAPTURED one, one row persisted.
C7_Witness ==
    /\ pc = "main_wait"
    /\ Len(history) = 2
    /\ history[1][1] = "EXPIRED"
    /\ history[2][1] = "CAPTURED"
    /\ csv # None
    /\ Len(csv[1].file_name) = 1

\* Rows of data.csv.
StoredRows == IF csv = None THEN 0 ELSE Len(csv[1].file_name)

\* Number of CAPTURED trials among the returned ones.
CapturedCount == Cardinality({i \in 1..Len(history) : history[i][1] = "CAPTURED"})

\* C8: wherever the process can terminate (an animation poll, the inter-trial
\* wait, or after it has ended) data.csv already holds the row of every earlier
\* CAPTURED trial.
C8_DurableBeforeQuit ==
    pc \in {"anim_poll", "main_wait", "exited"} =>
        /\ StoredRows = CapturedCount
        /\ \A i \in 1..Len(history) :
              history[i][1] = "CAPTURED" =>
                  \E r \in 1..StoredRows :
                      /\ csv[1].file_name[r] = history[i][2][1]
                      /\ csv[1].point_on_screen[r] = history[i][2][2]
                      /\ csv[1].time_till_capture[r] = history[i][2][3]

\* C8 witness: quit during the animation of the second trial, the first
\* trial's row is in data.csv.
C8_Witness ==
    /\ pc = "exited"
    /\ wait.site = "anim"
    /\ trial = 2
    /\ CapturedCount = 1
    /\ StoredRows = 1

\* C9: whichever timed key wait returns the quit key, the process ends.
C9_QuitNeverIgnored ==
    (wait.site \in {"anim", "window", "settle", "main"} /\ wait.key % ByteMod = KeyQ)
        => pc = "exited"

\* C10: when a quit key has ended the process the display is released, and a
\* trial interrupted by quit has returned no outcome and added no row.
C10_QuitReleasesDisplay ==
    pc = "exited" =>
        /\ ~windowOpen
        /\ wait.key % ByteMod = KeyQ
        /\ wait.site \in {"anim", "main"}
        /\ wait.site = "anim" =>
              /\ ret = None
              /\ Len(history) = trial - 1
              /\ collected_data = TableOf(history)
              /\ StoredRows = CapturedCount

\* C10 witness: quit during the animation of the second trial after a
\* CAPTURED first trial.
C10_Witness ==
    /\ pc = "exited"
    /\ ~windowOpen
    /\ wait.site = "anim"
    /\ trial = 2
    /\ history # <<>>
    /\ history[1][1] = "CAPTURED"
    /\ ret = None

\* C11: when the monitor geometry was not fully supplied and
\* get_monitor_dimensions reports absence, main ends with the configuration
\* error: no window was created, no trial ran and no row was kept or stored.
C11_NoGeometryNoSession ==
    /\ detected = "absent" =>
          /\ pc = "config_error"
          /\ ~windowOpen
          /\ trial = 0
          /\ history = <<>>
          /\ collected_data = EmptyTable
          /\ csv = None
    /\ (windowOpen \/ trial > 0) => (monitor_mm # None /\ monitor_pixels # None)

C11_Witness ==
    /\ pc = "config_error"
    /\ detected = "absent"
    /\ monitor_mm = None
    /\ monitor_pixels = None
    /\ ~windowOpen

\* C12: for every orientation and every centre (x, y) on the canvas, the disc
\* of the image create_image returns is centred at column x, row y.
C12_AppearsAtCenter ==
    pc = "created" => frame.disc = center

\* C13: for the same centre, the LEFT image has its disc at the horizontal
\* mirror position (column W-1-c, same row) of the disc of the RIGHT image.
C13_LeftMirrorsRight ==
    (pc = "created" /\ orientation = "LEFT") =>
        frame.disc = <<monitor_pixels[1][1] - 1
                          - DiscAt(monitor_pixels[1], center, "RIGHT")[1],
                       DiscAt(monitor_pixels[1], center, "RIGHT")[2]>>

\* C13 as amended: for the same centre the LEFT and RIGHT images have the
\* same shape and their discs are in the same row, in columns that differ by
\* at most one; the LEFT disc is at the mirror column W-1-c of the RIGHT disc
\* only for a centre within one column of the vertical midline.
C13_LeftNearRight ==
    (pc = "created" /\ orientation = "LEFT") =>
        LET w == monitor_pixels[1][1]
            s == DiscAt(monitor_pixels[1], center, "RIGHT")
            twice == w - 1 - 2 * center[1]
        IN  /\ frame.shape = Image(monitor_pixels[1], center, ScaleOne, "RIGHT",
                                   FALSE).shape
            /\ frame.disc[2] = s[2]
            /\ frame.disc[1] - s[1] \in {-1, 0, 1}
            /\ frame.disc[1] = w - 1 - s[1] => twice \in {-1, 0, 1}

\* C13 witness: LEFT on a canvas 4 wide with centre column 1: the disc is at
\* column 0, the mirror position of the RIGHT disc would be column 2.
C13_Witness ==
    /\ pc = "created"
    /\ orientation = "LEFT"
    /\ monitor_pixels = Some(<<4, 1>>)
    /\ center = <<1, 0>>
    /\ frame.disc = <<0, 0>>

\* C14: the point_on_screen of every returned outcome is the centre sampled at
\* the setup of the trial: the centre does not change between setup and return
\* (the mirroring inside create_image is on its own copy), the outcome carries
\* it, and it lies within [0, W) x [0, H).
C14_PointIsSampledCenter ==
    /\ [](pc = "record" =>
            /\ ret[2][1] \in 0..(monitor_pixels[1][1] - 1)
            /\ ret[2][2] \in 0..(monitor_pixels[1][2] - 1))
    /\ [][pc = "return" => ret'[2] = center]_vars
    /\ [][center' # center => pc \in {"call", "return"}]_vars

\* C14 witness: a LEFT trial sampled centre (0, 0), drew its frames with the
\* mirrored centre (2, 0), captured, and is about to return with the centre
\* unchanged.
C14_Witness ==
    /\ pc = "return"
    /\ orientation = "LEFT"
    /\ center = <<0, 0>>
    /\ DrawCenter(monitor_pixels[1], center, orientation) # center
    /\ end_animation_loop
    /\ time_till_capture # None

\* C15: the animation has no hard frame cap: whenever a frame is about to be
\* rendered, some threshold draw lets the animation go on after it.
C15_NoFrameCap ==
    pc = "render" => \E t \in Thresholds : ~EndAnimation(circle_scale, t)

\* C15 as amended: the animation has a hard frame cap: a frame rendered with a
\* scale below the smallest threshold 0.1 always ends the animation, and with
\* the scale multiplied by 0.9 per frame that is the 23rd frame at the latest.
C15_FrameCap ==
    /\ frames.blue + frames.orange <= 23
    /\ (frame.colour # "none" /\ frame.scale < ThresholdLo) => end_animation_loop

\* C15 witness: a trial whose 23rd frame was the first to end the animation.
C15_Witness ==
    /\ pc = "anim_poll"
    /\ frames.blue + frames.orange = 23
    /\ frame.scale < ThresholdLo
    /\ end_animation_loop

\* C16: a frame rendered with a scale of at least 0.5 never ends the
\* animation, so the first frame does not, and a frame that ends it comes
\* after at least one other frame, with a scale below 0.5.
C16_NoEndAboveHalf ==
    frame.colour # "none" =>
        /\ frame.scale >= ThresholdHi => ~end_animation_loop
        /\ frames.blue + frames.orange = 1 => ~end_animation_loop
        /\ end_animation_loop =>
              (frame.scale < ThresholdHi /\ frames.blue + frames.orange >= 2)

\* C16 witness: the last frame with a scale of at least 0.5 was shown, with
\* the largest threshold possible, and the animation goes on.
C16_Witness ==
    /\ pc = "anim_poll"
    /\ frame.scale >= ThresholdHi
    /\ circle_scale < ThresholdHi
    /\ frames.blue + frames.orange >= 2
    /\ ~end_animation_loop

\* C17: the animation frames of a trial are blue frames followed by exactly
\* one orange frame, which is the last; the capture window is opened only
\* after the orange frame was shown.
C17_BlueThenOneOrange ==
    /\ frames.orange <= 1
    /\ (frames.orange = 1) <=> end_animation_loop
    /\ (frames.orange = 1 /\ frame.colour # "none") => frame.colour = "orange"
    /\ (frames.orange = 0 /\ frames.blue > 0) => frame.colour = "blue"
    /\ pc \in {"open_window", "win_check", "win_poll", "clear", "next", "imwrite",
               "stamp", "blank", "settle"} => frames.orange = 1
    /\ phase = "CAPTURE_WINDOW" => (frames.orange = 1 /\ frame.colour = "orange")

\* C18: without a quit signal and with time advancing on every key wait of
\* the window, a trial that is called returns an outcome; its states change
\* only in the order ANIMATING, CAPTURE_WINDOW, CAPTURED or EXPIRED; and in
\* both outcomes the blank frame and the settle wait come right before the
\* return.
C18_TrialReturns ==
    /\ (pc = "call" /\ trial = 0) ~> (pc = "record" /\ Len(history) = 1)
    /\ phase = "ANIMATING" ~> phase = "CAPTURE_WINDOW"
    /\ phase = "CAPTURE_WINDOW" ~> phase \in {"CAPTURED", "EXPIRED"}
    /\ [][phase' # phase =>
            <<phase, phase'>> \in {<<"NONE", "ANIMATING">>,
                                   <<"ANIMATING", "CAPTURE_WINDOW">>,
                                   <<"CAPTURE_WINDOW", "CAPTURED">>,
                                   <<"CAPTURE_WINDOW", "EXPIRED">>}]_vars
    /\ [](pc = "settle" =>
            /\ phase \in {"CAPTURED", "EXPIRED"}
            /\ frame = BlankImage(monitor_pixels[1])
            /\ recent[Len(recent)] = "blank")
    /\ [](pc = "return" =>
            /\ phase \in {"CAPTURED", "EXPIRED"}
            /\ (phase = "CAPTURED") <=> (time_till_capture # None)
            /\ wait.site = "settle"
            /\ frame = BlankImage(monitor_pixels[1])
            /\ SubSeq(recent, Len(recent) - 1, Len(recent)) = <<"blank", "poll">>)

\* C18 witness: the window ran out with no matching key and the trial returned.
C18_Witness ==
    /\ pc = "record"
    /\ phase = "EXPIRED"
    /\ history = <<<<"EXPIRED">>>>
    /\ wait.site = "settle"
    /\ frame = BlankImage(monitor_pixels[1])

\* C19: while the target is animated, keys other than quit change nothing:
\* each frame shown is followed by exactly ten polls whatever they return,
\* the step after them depends only on whether the frame ended the
\* animation, and a poll that returns the orientation's key clears nothing,
\* pulls no frame and captures nothing.
C19_AnimKeysIgnored ==
    /\ [](pc = "anim_poll" => poll_i \in 0..(AnimPolls - 1))
    /\ [](phase = "ANIMATING" =>
            (cam = ZeroCam /\ matched = 0 /\ time_till_capture = None))
    /\ [][pc = "render" => (pc' = "anim_poll" /\ poll_i' = 0)]_vars
    /\ [][(pc = "anim_poll" /\ ~IsQuit(wait'.key)) =>
            /\ poll_i' = poll_i + 1
            /\ pc' = IF poll_i' < AnimPolls THEN "anim_poll"
                     ELSE IF end_animation_loop THEN "open_window" ELSE "render"
            /\ UNCHANGED <<cam, matched, phase, time_till_capture, file_name,
                           circle_scale, center, orientation, end_animation_loop,
                           frame, frames, windowOpen>>]_vars

\* C19 witness: the tenth poll after the last frame returned the
\* orientation's key, and the trial goes on to open the window.
C19_Witness ==
    /\ pc = "open_window"
    /\ phase = "ANIMATING"
    /\ poll_i = AnimPolls
    /\ wait.site = "anim"
    /\ KeyMatches(wait.key, orientation)
    /\ end_animation_loop
    /\ cam = ZeroCam

\* C20: a key other than the orientation's, polled in the capture window,
\* neither closes the window nor fails the trial: the loop goes back to its
\* time test with the trial unchanged, and a later poll that returns the
\* orientation's key still ends in CAPTURED.
C20_WrongKeyKeepsWindow ==
    /\ [][(pc = "win_poll" /\ ~KeyMatches(wait'.key, orientation)) =>
            /\ pc' = "win_check"
            /\ UNCHANGED <<phase, cam, time_till_capture, file_name, matched,
                           orientation, windowOpen>>]_vars
    /\ [][(pc = "win_check" /\ WindowIsOpen(elapsed)) => pc' = "win_poll"]_vars
    /\ [][(pc = "win_poll" /\ KeyMatches(wait'.key, orientation)) =>
            pc' = "clear"]_vars
    /\ [](pc \in {"blank", "settle", "return"} =>
            ((matched >= 1) <=> (phase = "CAPTURED" /\ time_till_capture # None)))

\* C20 witness: a capture after a key that was not the orientation's.
C20_Witness ==
    /\ pc = "blank"
    /\ phase = "CAPTURED"
    /\ wrong_key
    /\ matched = 1
    /\ time_till_capture # None

====
